---- MODULE Spec2Model ----
(***************************************************************************)
(* A model of deebase: the Record Store (Table) CRUD operations with       *)
(* FilterSets (xtra), the ambient transaction scope (Database.transaction) *)
(* and the migration runner (MigrationRunner.up / down).                   *)
(*                                                                         *)
(* The relational engine is modelled as a committed store plus units of    *)
(* work (sessions).  A session sees the committed rows overlaid with its   *)
(* own pending writes; commit publishes the pending writes, rollback       *)
(* discards them.  A write to a row on which another open session has a    *)
(* pending write fails with an engine error (row lock); an engine with a   *)
(* coarser lock may refuse any write while another session has pending     *)
(* writes, which is an input (busy) of the writing operations.             *)
(*                                                                         *)
(* The modelled table is  posts(id INTEGER PRIMARY KEY, user_id, title)    *)
(* of tests/test_crud.py (TestXtraFilters), all columns but id nullable.   *)
(***************************************************************************)
EXTENDS Integers, Sequences, FiniteSets, TLC

(* ------------------------------ bounds --------------------------------- *)
MaxId == 2          \* primary keys are 1..MaxId
MaxOps == 3         \* calls made in one behaviour of Spec
MaxDepth == 2       \* nesting depth of db.transaction() blocks
MaxVersion == 3     \* migration files are 0001 .. MaxVersion
NumSteps == 2       \* statements in a unit's upgrade() / downgrade()

(* ------------------------------ values --------------------------------- *)
NULL == 0
Ids == 1..MaxId
Users == {1, 2}
Titles == {1}

Empty == [c \in {} |-> NULL]

Restrict(f, S) == [c \in S |-> f[c]]

SetMax(S) == CHOOSE m \in S : \A x \in S : x <= m

\* Every mapping of a subset of the columns in D (column -> value set)
Partial(D) ==
    UNION { { r \in [S -> UNION { D[c] : c \in S }] : \A c \in S : r[c] \in D[c] }
            : S \in SUBSET (DOMAIN D) }

\* Records a caller passes to insert / update / upsert (dict input)
Records ==
    Partial([id |-> Ids \cup {NULL}, user_id |-> Users, title |-> Titles])

\* FilterSets carried by the handles in use: the table itself and xtra(...)
Filters == { Empty, [user_id |-> 1] }

\* keyword filters of lookup()
Lookups == Partial([user_id |-> Users, title |-> Titles])

VARIABLES
    db,        \* committed rows of posts: [present ids -> row]
    stack,     \* sessions installed in _active_session, innermost last
    last,      \* the last call made and what it returned / raised
    closed,    \* the last transaction scope that exited
    nops,      \* number of calls made so far
    files,     \* versions of the migration files in the migrations directory
    ledger,    \* versions recorded in _deebase_migrations (version is its key)
    effects,   \* committed effects <<version, statement>> of forward actions
    run,       \* the MigrationRunner.up / down call in progress, or the last one
    prevRun,   \* the call made before it
    parents,   \* keys of the committed rows of users, the table posts.user_id refers to
    registry,  \* Database._tables: table name -> cached handle
    hand,      \* the handle the caller holds and derives handles from
    ntypes,    \* number of types make_table_dataclass has made
    catalog,   \* tables in storage: table name -> columns
    metadata,  \* Database._metadata.tables: table name -> columns
    tasks      \* concurrent tasks (asyncio) or runner processes: id -> position

crudVars == <<db, stack, last, closed, nops>>

migVars == <<files, ledger, effects, run, prevRun>>

regVars == <<parents, registry, hand, ntypes, catalog, metadata, tasks>>

vars == <<db, stack, last, closed, nops, files, ledger, effects, run, prevRun,
          parents, registry, hand, ntypes, catalog, metadata, tasks>>

(* --------------------------- engine: sessions --------------------------- *)
NewSession(d) ==
    [put |-> Empty, del |-> {}, commits |-> 0, rollbacks |-> 0,
     snap |-> d, pure |-> TRUE]

Touched(s) == DOMAIN s.put \cup s.del

View(d, s) ==
    [k \in ((DOMAIN d \ s.del) \cup DOMAIN s.put) |->
        IF k \in DOMAIN s.put THEN s.put[k] ELSE d[k]]

Put(s, k, row) ==
    [s EXCEPT !.put = [j \in DOMAIN s.put \cup {k} |->
                          IF j = k THEN row ELSE s.put[j]],
              !.del = s.del \ {k}]

Del(s, k) ==
    [s EXCEPT !.put = Restrict(s.put, DOMAIN s.put \ {k}),
              !.del = s.del \cup {k}]

\* pending writes of the sessions below the innermost one
OthersTouched == UNION { Touched(stack[i]) : i \in 1..(Len(stack) - 1) }

LockErr(k, busy) == k \in OthersTouched \/ (busy /\ OthersTouched # {})

(* ----------------------------- rows / records --------------------------- *)
Col(data, c) == IF c \in DOMAIN data THEN data[c] ELSE NULL

RowOf(data) == [user_id |-> Col(data, "user_id"), title |-> Col(data, "title")]

Rec(k, row) == [id |-> k, user_id |-> row.user_id, title |-> row.title]

Satisfies(row, F) == \A c \in DOMAIN F : row[c] = F[c]

Conflicts(F, rec) == \E c \in DOMAIN F : c \in DOMAIN rec /\ rec[c] # F[c]

Matches(v, k, F) == k \in DOMAIN v /\ Satisfies(v[k], F)

NextId(v) == IF DOMAIN v = {} THEN 1 ELSE SetMax(DOMAIN v) + 1

\* what a call leaves behind: the session after its statements, the result
\* ("ok" or the exception raised), the records returned, and whether the
\* path calls session.commit() / session.rollback() when should_manage
Out(s, res, ret, commit, rollback) ==
    [sess |-> s, res |-> res, ret |-> ret, commit |-> commit, rollback |-> rollback]

(* --------------------------- handles and classes ------------------------ *)
PostCols == {"id", "user_id", "title"}

UserCols == {"id"}

\* views over posts (SELECT * FROM posts)
ViewNames == {"posts_view"}

\* _dataclass_cls of a handle: None, a class with annotations that is no
\* dataclass, a @dataclass, or the n-th type made by make_table_dataclass
NoClass == [kind |-> "none", fields |-> {}, n |-> 0]

PlainClass(fields) == [kind |-> "plain", fields |-> fields, n |-> 0]

DeclaredClass(fields) == [kind |-> "declared", fields |-> fields, n |-> 0]

MakeTableDataclass(cols, n) == [kind |-> "made", fields |-> cols, n |-> n]

IsDataclass(cls) == cls.kind \in {"declared", "made"}

\* Table(name, sa_table, engine, dataclass_cls, xtra_filters, ...)
NewTable(name, cols, dc, F) ==
    [name |-> name, kind |-> "table", cols |-> cols, F |-> F, dc |-> dc]

\* View(name, sa_table, engine)
NewView(name, cols) ==
    [name |-> name, kind |-> "view", cols |-> cols, F |-> Empty, dc |-> NoClass]

\* no handle: a name the registry does not hold
NoHandle ==
    [name |-> "", kind |-> "none", cols |-> {}, F |-> Empty, dc |-> NoClass]

\* Table._to_record: a dict, or an instance of the handle's dataclass built
\* from the columns that are fields of the dataclass
ToRecord(h, rec) ==
    IF IsDataclass(h.dc)
    THEN [type |-> h.dc, data |-> Restrict(rec, DOMAIN rec \cap h.dc.fields)]
    ELSE [type |-> NoClass, data |-> rec]

\* Table.xtra: {**self._xtra_filters, **kwargs}; the result is a Table
Xtra(h, kwargs) == NewTable(h.name, h.cols, h.dc, kwargs @@ h.F)

\* a new type is made at every call
DataclassOf_Regenerate(h, n) == MakeTableDataclass(h.cols, n)

\* Table.dataclass: the type is made once, when the handle has no dataclass
DataclassOf(h, n) ==
    IF h.dc = NoClass \/ ~IsDataclass(h.dc) THEN MakeTableDataclass(h.cols, n)
    ELSE h.dc

(* ------------------------------ Table.insert ---------------------------- *)
InsertKey(v, data) ==
    IF "id" \in DOMAIN data /\ data["id"] # NULL THEN data["id"] ELSE NextId(v)

\* the filter values are not injected into the record
InsertData_NoInject(F, rec) == rec

InsertData(F, rec) == F @@ rec

\* the record passed in is returned with its key; the row is not read back
InsertedRow_Echo(v, k, data) == [id |-> k] @@ data

\* the inserted row is read back by its primary key, so the values the
\* engine assigned (key, column defaults) are in the returned record
InsertedRow(v, k, data) == Rec(k, v[k])

\* the record is not validated against the FilterSet before the INSERT
InsertExec_NoValidation(d, s, F, rec, busy) ==
    LET data == InsertData(F, rec)
        v == View(d, s)
        k == InsertKey(v, data)
    IN  IF LockErr(k, busy) THEN Out(s, "RuntimeError", {}, FALSE, TRUE)
        ELSE IF k \in DOMAIN v THEN Out(s, "IntegrityError", {}, FALSE, TRUE)
        ELSE LET s2 == Put(s, k, RowOf(data))
             IN  Out(s2, "ok", {InsertedRow(View(d, s2), k, data)}, TRUE, FALSE)

\* the engine does not refuse a key that is already stored
InsertExec_NoKeyCheck(d, s, F, rec, busy) ==
    LET data == InsertData(F, rec)
        v == View(d, s)
        k == InsertKey(v, data)
    IN  IF Conflicts(F, rec) THEN Out(s, "ValidationError", {}, FALSE, FALSE)
        ELSE IF LockErr(k, busy) THEN Out(s, "RuntimeError", {}, FALSE, TRUE)
        ELSE LET s2 == Put(s, k, RowOf(data))
             IN  Out(s2, "ok", {InsertedRow(View(d, s2), k, data)}, TRUE, FALSE)

InsertExec(d, s, F, rec, busy) ==
    LET data == InsertData(F, rec)
        v == View(d, s)
        k == InsertKey(v, data)
    IN  IF Conflicts(F, rec) THEN Out(s, "ValidationError", {}, FALSE, FALSE)
        ELSE IF LockErr(k, busy) THEN Out(s, "RuntimeError", {}, FALSE, TRUE)
        ELSE IF k \in DOMAIN v THEN Out(s, "IntegrityError", {}, FALSE, TRUE)
        ELSE LET s2 == Put(s, k, RowOf(data))
             IN  Out(s2, "ok", {InsertedRow(View(d, s2), k, data)}, TRUE, FALSE)

(* ------------------------------ Table.update ---------------------------- *)
UpdateRow(row, rec) ==
    [c \in {"user_id", "title"} |-> IF c \in DOMAIN rec THEN rec[c] ELSE row[c]]

\* the rowcount of the UPDATE is not checked
UpdateExec_NoRowcount(d, s, F, rec, busy) ==
    LET v == View(d, s)
        k == rec["id"]
    IN  IF "id" \notin DOMAIN rec THEN Out(s, "ValidationError", {}, FALSE, FALSE)
        ELSE IF Conflicts(F, rec) THEN Out(s, "ValidationError", {}, FALSE, FALSE)
        ELSE IF DOMAIN rec = {"id"} THEN Out(s, "RuntimeError", {}, FALSE, TRUE)
        ELSE IF ~Matches(v, k, F) THEN Out(s, "ok", {}, TRUE, FALSE)
        ELSE IF LockErr(k, busy) THEN Out(s, "RuntimeError", {}, FALSE, TRUE)
        ELSE LET row == UpdateRow(v[k], rec)
             IN  Out(Put(s, k, row), "ok", {Rec(k, row)}, TRUE, FALSE)

\* an UPDATE whose SET list is empty (the record carries only the key) is
\* rejected by the engine and surfaces through `except Exception`
UpdateExec(d, s, F, rec, busy) ==
    LET v == View(d, s)
        k == rec["id"]
    IN  IF "id" \notin DOMAIN rec THEN Out(s, "ValidationError", {}, FALSE, FALSE)
        ELSE IF Conflicts(F, rec) THEN Out(s, "ValidationError", {}, FALSE, FALSE)
        ELSE IF DOMAIN rec = {"id"} THEN Out(s, "RuntimeError", {}, FALSE, TRUE)
        ELSE IF ~Matches(v, k, F) THEN Out(s, "NotFoundError", {}, TRUE, TRUE)
        ELSE IF LockErr(k, busy) THEN Out(s, "RuntimeError", {}, FALSE, TRUE)
        ELSE LET row == UpdateRow(v[k], rec)
             IN  Out(Put(s, k, row), "ok", {Rec(k, row)}, TRUE, FALSE)

(* ------------------------------ Table.delete ---------------------------- *)
\* the DELETE names the key only, not the columns of the FilterSet
DeleteExec_KeyOnly(d, s, F, k, busy) ==
    LET v == View(d, s)
    IN  IF k \notin DOMAIN v THEN Out(s, "NotFoundError", {}, TRUE, TRUE)
        ELSE IF LockErr(k, busy) THEN Out(s, "RuntimeError", {}, FALSE, TRUE)
        ELSE Out(Del(s, k), "ok", {}, TRUE, FALSE)

DeleteExec(d, s, F, k, busy) ==
    LET v == View(d, s)
    IN  IF ~Matches(v, k, F) THEN Out(s, "NotFoundError", {}, TRUE, TRUE)
        ELSE IF LockErr(k, busy) THEN Out(s, "RuntimeError", {}, FALSE, TRUE)
        ELSE Out(Del(s, k), "ok", {}, TRUE, FALSE)

(* ------------------------------ Table.upsert ---------------------------- *)
HasPk(rec) == "id" \in DOMAIN rec /\ rec["id"] # NULL

\* the existence check looks at the key only, not at the FilterSet
UpsertExec_ExistsIgnoresF(d, s, F, rec, busy) ==
    IF ~HasPk(rec) THEN InsertExec(d, s, F, rec, busy)
    ELSE IF rec["id"] \in DOMAIN View(d, s) THEN UpdateExec(d, s, F, rec, busy)
    ELSE InsertExec(d, s, F, rec, busy)

UpsertExec(d, s, F, rec, busy) ==
    IF ~HasPk(rec) THEN InsertExec(d, s, F, rec, busy)
    ELSE IF Matches(View(d, s), rec["id"], F) THEN UpdateExec(d, s, F, rec, busy)
    ELSE InsertExec(d, s, F, rec, busy)

(* ------------------------- reads: [], lookup, () ------------------------ *)
GetExec(d, s, F, k) ==
    LET v == View(d, s)
    IN  IF Matches(v, k, F) THEN Out(s, "ok", {Rec(k, v[k])}, TRUE, FALSE)
        ELSE Out(s, "NotFoundError", {}, TRUE, TRUE)

SelectRows(v, F) == { Rec(k, v[k]) : k \in { j \in DOMAIN v : Satisfies(v[j], F) } }

LookupRows(v, F, kw) == { r \in SelectRows(v, F) : \A c \in DOMAIN kw : r[c] = kw[c] }

(* ----------------------- Table._session_scope --------------------------- *)
\* inside a transaction the active session is used and its lifecycle is not
\* managed; otherwise the call opens, commits and releases its own session
\* the call manages (commits) the session also inside a transaction
SessionScope_AlwaysManage(out) ==
    IF stack # <<>>
    THEN /\ db' = IF out.commit THEN View(db, out.sess) ELSE db
         /\ stack' = [stack EXCEPT ![Len(stack)] =
                IF out.commit
                THEN [out.sess EXCEPT !.put = Empty, !.del = {}, !.commits = @ + 1]
                ELSE out.sess]
    ELSE /\ db' = IF out.commit THEN View(db, out.sess) ELSE db
         /\ stack' = stack

\* a failing call rolls the transaction's session back itself
SessionScope_RollbackOnError(out) ==
    IF stack # <<>>
    THEN /\ stack' = [stack EXCEPT ![Len(stack)] =
                IF out.rollback
                THEN [out.sess EXCEPT !.put = Empty, !.del = {}, !.rollbacks = @ + 1]
                ELSE out.sess]
         /\ db' = db
    ELSE /\ db' = IF out.commit THEN View(db, out.sess) ELSE db
         /\ stack' = stack

SessionScope(out) ==
    IF stack # <<>>
    THEN /\ stack' = [stack EXCEPT ![Len(stack)] = out.sess]
         /\ db' = db
    ELSE /\ db' = IF out.commit THEN View(db, out.sess) ELSE db
         /\ stack' = stack

ActiveSession == IF stack # <<>> THEN stack[Len(stack)] ELSE NewSession(db)

Finish(op, F, rec, out) ==
    /\ nops < MaxOps
    /\ nops' = nops + 1
    /\ last' = [op |-> op, F |-> F, rec |-> rec, res |-> out.res, ret |-> out.ret]
    /\ SessionScope(out)
    /\ UNCHANGED closed
    /\ UNCHANGED migVars
    /\ UNCHANGED regVars

(* -------------------------------- actions ------------------------------- *)
Insert ==
    \E F \in Filters, rec \in Records, busy \in BOOLEAN :
        /\ busy => OthersTouched # {}
        /\ Conflicts(F, rec) \/ InsertKey(View(db, ActiveSession), InsertData(F, rec)) \in Ids
        /\ Finish("insert", F, rec, InsertExec(db, ActiveSession, F, rec, busy))

Update ==
    \E F \in Filters, rec \in Records, busy \in BOOLEAN :
        /\ busy => OthersTouched # {}
        /\ Finish("update", F, rec, UpdateExec(db, ActiveSession, F, rec, busy))

Upsert ==
    \E F \in Filters, rec \in Records, busy \in BOOLEAN :
        /\ busy => OthersTouched # {}
        /\ Conflicts(F, rec) \/ HasPk(rec)
              \/ InsertKey(View(db, ActiveSession), InsertData(F, rec)) \in Ids
        /\ Finish("upsert", F, rec, UpsertExec(db, ActiveSession, F, rec, busy))

Delete ==
    \E F \in Filters, k \in Ids, busy \in BOOLEAN :
        /\ busy => OthersTouched # {}
        /\ Finish("delete", F, [id |-> k], DeleteExec(db, ActiveSession, F, k, busy))

Get ==
    \E F \in Filters, k \in Ids :
        Finish("get", F, [id |-> k], GetExec(db, ActiveSession, F, k))

Select ==
    \E F \in Filters, limited \in BOOLEAN :
        LET rows == SelectRows(View(db, ActiveSession), F)
        IN  \E ret \in SUBSET rows :
                /\ IF limited THEN Cardinality(ret) = (IF rows = {} THEN 0 ELSE 1)
                              ELSE ret = rows
                /\ Finish("select", F, Empty, Out(ActiveSession, "ok", ret, TRUE, FALSE))

Lookup ==
    \E F \in Filters, kw \in Lookups :
        LET rows == LookupRows(View(db, ActiveSession), F, kw)
        IN  IF kw = Empty
            THEN Finish("lookup", F, kw, Out(ActiveSession, "ValidationError", {}, FALSE, FALSE))
            ELSE IF rows = {}
            THEN Finish("lookup", F, kw, Out(ActiveSession, "NotFoundError", {}, TRUE, TRUE))
            ELSE \E r \in rows :
                    Finish("lookup", F, kw, Out(ActiveSession, "ok", {r}, TRUE, FALSE))

(* -------------------------- Database.transaction ------------------------ *)
\* entry: a new session is made and installed in _active_session
TxEnter ==
    /\ nops < MaxOps
    /\ Len(stack) < MaxDepth
    /\ stack' = Append([i \in 1..Len(stack) |-> [stack[i] EXCEPT !.pure = FALSE]],
                       NewSession(db))
    /\ nops' = nops + 1
    /\ last' = [op |-> "tx_enter", F |-> Empty, rec |-> Empty, res |-> "ok", ret |-> {}]
    /\ UNCHANGED <<db, closed>>
    /\ UNCHANGED migVars
    /\ UNCHANGED regVars

\* the context variable is not reset: the session stays installed
PopScope_StaysInstalled(outcome, s) ==
    /\ stack' = stack
    /\ closed' = [outcome |-> outcome, sess |-> s]

PopScope(outcome, s) ==
    /\ stack' = SubSeq(stack, 1, Len(stack) - 1)
    /\ closed' = [outcome |-> outcome, sess |-> s]

\* the body completed normally: commit, then reset the context variable
TxCommit ==
    /\ stack # <<>>
    /\ LET s == stack[Len(stack)]
       IN  /\ db' = View(db, s)
           /\ PopScope("commit", [s EXCEPT !.commits = @ + 1])
    /\ nops' = nops
    /\ last' = [op |-> "tx_commit", F |-> Empty, rec |-> Empty, res |-> "ok", ret |-> {}]
    /\ UNCHANGED migVars
    /\ UNCHANGED regVars

\* the error path commits instead of rolling back
TxAbort_Commits ==
    /\ stack # <<>>
    /\ LET s == stack[Len(stack)]
       IN  /\ db' = View(db, s)
           /\ PopScope("rollback", [s EXCEPT !.rollbacks = @ + 1])
    /\ nops' = nops
    /\ last' = [op |-> "tx_abort", F |-> Empty, rec |-> Empty, res |-> "raised", ret |-> {}]
    /\ UNCHANGED migVars
    /\ UNCHANGED regVars

\* the body raised: rollback, re-raise, then reset the context variable
TxAbort ==
    /\ stack # <<>>
    /\ LET s == stack[Len(stack)]
       IN  /\ db' = db
           /\ PopScope("rollback", [s EXCEPT !.rollbacks = @ + 1])
    /\ nops' = nops
    /\ last' = [op |-> "tx_abort", F |-> Empty, rec |-> Empty, res |-> "raised", ret |-> {}]
    /\ UNCHANGED migVars
    /\ UNCHANGED regVars

(* --------------------------- MigrationRunner ---------------------------- *)
Versions == 1..MaxVersion

NoTarget == -1      \* to_version=None

Targets == {NoTarget} \cup (0..MaxVersion)

Idle == [pc |-> "idle", kind |-> "none", to |-> NoTarget, queue |-> <<>>,
         cur |-> 0, step |-> 0, applied |-> <<>>, tried |-> <<>>,
         res |-> "none", failed |-> 0, phase |-> "none", pre |-> {}, dir |-> {}]

Summary(r) == [kind |-> r.kind, to |-> r.to, res |-> r.res]

RECURSIVE Sorted(_)
\* sorted(migrations, key=lambda m: m.version)
Sorted(S) ==
    IF S = {} THEN <<>>
    ELSE LET m == CHOOSE x \in S : \A y \in S : x <= y
         IN  <<m>> \o Sorted(S \ {m})

Reversed(q) == [i \in 1..Len(q) |-> q[Len(q) + 1 - i]]

Range(q) == { q[i] : i \in 1..Len(q) }

\* SELECT MAX(version): the highest recorded version, 0 for an empty ledger
CurrentVersion(led) == IF led = {} THEN 0 ELSE SetMax(led)

\* the files with  version > after  and  version <= up_to, in version order
DiscoverMigrations(after, upTo) ==
    Sorted({ v \in files : v > after /\ (upTo = NoTarget \/ v <= upTo) })

\* a migration file appears in the directory; the directory is read anew by
\* every up() / down() call
AddFile ==
    /\ run.pc = "idle"
    /\ \E v \in Versions \ files : files' = files \cup {v}
    /\ UNCHANGED <<ledger, effects, run, prevRun>>
    /\ UNCHANGED crudVars
    /\ UNCHANGED regVars

StartRun(kind, to, queue) ==
    /\ prevRun' = Summary(run)
    /\ run' = [Idle EXCEPT !.pc = IF queue = <<>> THEN "idle" ELSE "begin",
                           !.kind = kind, !.to = to, !.queue = queue,
                           !.res = IF queue = <<>> THEN "ok" ELSE "running",
                           !.pre = ledger, !.dir = files]
    /\ UNCHANGED <<files, ledger, effects>>
    /\ UNCHANGED crudVars
    /\ UNCHANGED regVars

\* up(): the units above the current version, ascending
UpQueue(to) == DiscoverMigrations(CurrentVersion(ledger), to)

StartUp ==
    /\ run.pc = "idle"
    /\ \E to \in Targets : StartRun("up", to, UpQueue(to))

\* to_version=0 is taken for "no target": only the last unit is rolled back
DownQueue_ZeroIsNone(to) ==
    LET current == CurrentVersion(ledger)
        target == IF to = NoTarget \/ to = 0 THEN current - 1 ELSE to
    IN  IF current = 0 THEN <<>>
        ELSE Reversed(DiscoverMigrations(target, current))

\* down(): the units in (to_version, current], descending; without a target
\* to_version = current - 1
DownQueue(to) ==
    LET current == CurrentVersion(ledger)
        target == IF to = NoTarget THEN current - 1 ELSE to
    IN  IF current = 0 THEN <<>>
        ELSE Reversed(DiscoverMigrations(target, current))

StartDown ==
    /\ run.pc = "idle"
    /\ \E to \in Targets : StartRun("down", to, DownQueue(to))

\* loop head: next unit, `async with self.db.transaction()` is entered
UnitBegin ==
    /\ run.pc = "begin"
    /\ run' = [run EXCEPT !.pc = IF run.kind = "up" THEN "fwd" ELSE "rev",
                          !.cur = Head(run.queue), !.queue = Tail(run.queue),
                          !.step = 1, !.tried = Append(run.tried, Head(run.queue))]
    /\ stack' = Append(stack, NewSession(db))
    /\ UNCHANGED <<db, last, closed, nops, files, ledger, effects, prevRun>>
    /\ UNCHANGED regVars

\* the failed unit is skipped and the loop goes on with the next unit
UnitFails_Continue(phase) ==
    /\ run' = [run EXCEPT !.pc = IF run.queue = <<>> THEN "idle" ELSE "begin",
                          !.res = IF run.queue = <<>> THEN "error" ELSE "running",
                          !.failed = run.cur, !.phase = phase]
    /\ PopScope("rollback", [stack[Len(stack)] EXCEPT !.rollbacks = @ + 1])
    /\ UNCHANGED <<db, last, nops, files, ledger, effects, prevRun>>
    /\ UNCHANGED regVars

\* an exception leaves the transaction block (rollback) and the run
UnitFails(phase) ==
    /\ run' = [run EXCEPT !.pc = "idle", !.res = "error",
                          !.failed = run.cur, !.phase = phase]
    /\ PopScope("rollback", [stack[Len(stack)] EXCEPT !.rollbacks = @ + 1])
    /\ UNCHANGED <<db, last, nops, files, ledger, effects, prevRun>>
    /\ UNCHANGED regVars

\* Database.q: the statement runs in a session of its own (self._session())
\* and is committed at once, whatever _active_session holds
Q(eff, led) ==
    /\ effects' = eff
    /\ ledger' = led
    /\ UNCHANGED <<db, stack, closed>>
    /\ UNCHANGED regVars

\* one statement of upgrade(db)
ForwardStep ==
    /\ run.pc = "fwd"
    /\ \E fail \in BOOLEAN :
          IF fail THEN UnitFails("action")
          ELSE /\ Q(effects \cup {<<run.cur, run.step>>}, ledger)
               /\ run' = IF run.step = NumSteps
                         THEN [run EXCEPT !.pc = "record"]
                         ELSE [run EXCEPT !.step = @ + 1]
               /\ UNCHANGED <<last, nops, files, prevRun>>

\* _record_migration: INSERT of the version, refused for a recorded version
RecordStep ==
    /\ run.pc = "record"
    /\ \E fail \in BOOLEAN :
          IF fail \/ run.cur \in ledger THEN UnitFails("ledger")
          ELSE /\ Q(effects, ledger \cup {run.cur})
               /\ run' = [run EXCEPT !.pc = "commit"]
               /\ UNCHANGED <<last, nops, files, prevRun>>

\* one statement of downgrade(db)
ReverseStep ==
    /\ run.pc = "rev"
    /\ \E fail \in BOOLEAN :
          IF fail THEN UnitFails("action")
          ELSE /\ Q(effects \ {<<run.cur, run.step>>}, ledger)
               /\ run' = IF run.step = NumSteps
                         THEN [run EXCEPT !.pc = "remove"]
                         ELSE [run EXCEPT !.step = @ + 1]
               /\ UNCHANGED <<last, nops, files, prevRun>>

\* _remove_migration: DELETE of the version
RemoveStep ==
    /\ run.pc = "remove"
    /\ \E fail \in BOOLEAN :
          IF fail THEN UnitFails("ledger")
          ELSE /\ Q(effects, ledger \ {run.cur})
               /\ run' = [run EXCEPT !.pc = "commit"]
               /\ UNCHANGED <<last, nops, files, prevRun>>

\* the transaction block is left normally: commit, applied.append(migration)
UnitCommit ==
    /\ run.pc = "commit"
    /\ db' = View(db, stack[Len(stack)])
    /\ PopScope("commit", [stack[Len(stack)] EXCEPT !.commits = @ + 1])
    /\ run' = [run EXCEPT !.pc = IF run.queue = <<>> THEN "idle" ELSE "begin",
                          !.res = IF run.queue = <<>> THEN "ok" ELSE "running",
                          !.applied = Append(run.applied, run.cur)]
    /\ UNCHANGED <<last, nops, files, ledger, effects, prevRun>>
    /\ UNCHANGED regVars

\* posts created from its class (tests/test_crud.py, TestXtraFilters)
InitObjects ==
    /\ parents = {}
    /\ catalog = [posts |-> PostCols]
    /\ metadata = [posts |-> PostCols]
    /\ registry = [posts |-> NewTable("posts", PostCols, PlainClass(PostCols), Empty)]
    /\ hand = NewTable("posts", PostCols, PlainClass(PostCols), Empty)
    /\ ntypes = 0

InitCrud ==
    /\ db = Empty
    /\ stack = <<>>
    /\ last = [op |-> "none", F |-> Empty, rec |-> Empty, res |-> "ok", ret |-> {}]
    /\ closed = [outcome |-> "none", sess |-> NewSession(Empty)]
    /\ nops = 0
    /\ tasks = <<>>
    /\ InitObjects

\* a fresh database and any migrations directory
InitMig ==
    /\ InitCrud
    /\ files \in SUBSET Versions
    /\ ledger = {}
    /\ effects = {}
    /\ run = Idle
    /\ prevRun = Summary(Idle)

NextMig ==
    \/ AddFile
    \/ StartUp
    \/ StartDown
    \/ UnitBegin
    \/ ForwardStep
    \/ RecordStep
    \/ ReverseStep
    \/ RemoveStep
    \/ UnitCommit

SpecMig == InitMig /\ [][NextMig]_vars

(* ----------------------------- specification ---------------------------- *)
Init ==
    /\ InitCrud
    /\ files = {}
    /\ ledger = {}
    /\ effects = {}
    /\ run = Idle
    /\ prevRun = Summary(Idle)

Next ==
    \/ Insert
    \/ Update
    \/ Upsert
    \/ Delete
    \/ Get
    \/ Select
    \/ Lookup
    \/ TxEnter
    \/ TxCommit
    \/ TxAbort

Spec == Init /\ [][Next]_vars

(* ------------------- handles: xtra, dataclass, views -------------------- *)
MaxTypes == 2       \* types make_table_dataclass makes in one behaviour

\* keyword filters passed to xtra()
XtraArgs == { [user_id |-> 1], [user_id |-> 2], [title |-> 1] }

\* handles returned by db.create(Post), db.reflect_table("posts") and
\* db.create_view("posts_view", "SELECT * FROM posts")
BaseHandles ==
    { NewTable("posts", PostCols, dc, Empty) :
        dc \in {NoClass, PlainClass(PostCols), DeclaredClass(PostCols)} }
    \cup { NewView("posts_view", PostCols) }

\* everything but the table, the handle in hand and the last call
HandleFrame ==
    /\ UNCHANGED <<stack, closed, nops, parents, registry, catalog, metadata, tasks>>
    /\ UNCHANGED migVars

\* hand = hand.xtra(**kwargs)
XtraStep ==
    \E kwargs \in XtraArgs :
        /\ hand' = Xtra(hand, kwargs)
        /\ last' = [op |-> "xtra", F |-> hand.F, rec |-> kwargs, res |-> "ok", ret |-> {}]
        /\ UNCHANGED <<db, ntypes>>
        /\ HandleFrame

\* hand.dataclass()
Dataclass ==
    LET cls == DataclassOf(hand, ntypes + 1)
    IN  /\ cls # hand.dc => ntypes < MaxTypes
        /\ hand' = [hand EXCEPT !.dc = cls]
        /\ ntypes' = IF cls # hand.dc THEN ntypes + 1 ELSE ntypes
        /\ last' = [op |-> "dataclass", F |-> hand.F, rec |-> Empty, res |-> "ok",
                    ret |-> {cls}]
        /\ UNCHANGED db
        /\ HandleFrame

\* hand(): the rows of posts, or of the view over posts, that satisfy the
\* FilterSet, in the handle's output shape
HandleSelect ==
    /\ last' = [op |-> "select", F |-> hand.F, rec |-> Empty, res |-> "ok",
                ret |-> { ToRecord(hand, r) : r \in SelectRows(db, hand.F) }]
    /\ UNCHANGED <<db, hand, ntypes>>
    /\ HandleFrame

\* hand.insert(rec) through a table handle, outside a transaction
HandleInsert ==
    \E rec \in Records :
        LET out == InsertExec(db, NewSession(db), hand.F, rec, FALSE)
        IN  /\ hand.kind = "table"
            /\ hand.name \notin ViewNames
            /\ Conflicts(hand.F, rec) \/ InsertKey(db, InsertData(hand.F, rec)) \in Ids
            /\ db' = IF out.commit THEN View(db, out.sess) ELSE db
            /\ last' = [op |-> "insert", F |-> hand.F, rec |-> rec, res |-> out.res,
                        ret |-> { ToRecord(hand, r) : r \in out.ret }]
            /\ UNCHANGED <<hand, ntypes>>
            /\ HandleFrame

\* hand.insert(rec) through the Table that xtra() made from a view: the
\* INSERT names the view.  SQLite refuses to modify a view and the error
\* surfaces through `except Exception`; an engine with updatable views
\* (PostgreSQL, for SELECT * FROM posts) stores the row in posts.  The
\* reflected view has no primary key, so the row read back is any row of it.
DerivedInsert ==
    \E rec \in Records, updatable \in BOOLEAN :
        LET out == IF updatable \/ Conflicts(hand.F, rec)
                   THEN InsertExec(db, NewSession(db), hand.F, rec, FALSE)
                   ELSE Out(NewSession(db), "RuntimeError", {}, FALSE, TRUE)
        IN  /\ hand.kind = "table"
            /\ hand.name \in ViewNames
            /\ Conflicts(hand.F, rec) \/ InsertKey(db, InsertData(hand.F, rec)) \in Ids
            /\ db' = IF out.commit THEN View(db, out.sess) ELSE db
            /\ \E r \in (IF out.res = "ok" THEN SelectRows(db', Empty) ELSE {Empty}) :
                  last' = [op |-> "insert", F |-> hand.F, rec |-> rec, res |-> out.res,
                           ret |-> IF out.res = "ok" THEN {ToRecord(hand, r)} ELSE {}]
            /\ UNCHANGED <<hand, ntypes>>
            /\ HandleFrame

\* View.insert / update / upsert / delete
ViewWrite ==
    \E op \in {"insert", "update", "upsert", "delete"} :
        /\ hand.kind = "view"
        /\ last' = [op |-> op, F |-> hand.F, rec |-> Empty,
                    res |-> "NotImplementedError", ret |-> {}]
        /\ UNCHANGED <<db, hand, ntypes>>
        /\ HandleFrame

\* everything the transaction and migration parts of the model hold, at rest
InitQuiet ==
    /\ stack = <<>>
    /\ tasks = <<>>
    /\ last = [op |-> "none", F |-> Empty, rec |-> Empty, res |-> "ok", ret |-> {}]
    /\ closed = [outcome |-> "none", sess |-> NewSession(Empty)]
    /\ nops = 0
    /\ files = {}
    /\ ledger = {}
    /\ effects = {}
    /\ run = Idle
    /\ prevRun = Summary(Idle)

InitHandle ==
    /\ InitQuiet
    /\ db = Empty
    /\ hand \in BaseHandles
    /\ ntypes = 0
    /\ parents = {}
    /\ catalog = [posts |-> PostCols]
    /\ metadata = [posts |-> PostCols]
    /\ registry = Empty

NextHandle ==
    \/ XtraStep
    \/ Dataclass
    \/ HandleSelect
    \/ HandleInsert
    \/ DerivedInsert
    \/ ViewWrite

SpecHandle == InitHandle /\ [][NextHandle]_vars

(* ------------------- navigation: get_parent, get_children --------------- *)
\* dataclass_cls of a handle cached by db.reflect_table / db.create
CachedClasses(cols) == {NoClass, PlainClass(cols), DeclaredClass(cols)}

ColsOf(name) == IF name = "posts" THEN PostCols ELSE UserCols

\* the registries db.create / db.reflect_table leave behind for the tables
\* posts and users: each table cached or not
Registries ==
    UNION { { r \in [S -> UNION { { NewTable(t, ColsOf(t), dc, Empty) :
                                      dc \in CachedClasses(ColsOf(t)) } : t \in S }] :
                \A t \in S : r[t].name = t }
            : S \in SUBSET {"posts", "users"} }

\* stored tables of posts in which only the reference to users varies
NavTables ==
    UNION { [S -> { [user_id |-> u, title |-> NULL] : u \in Users \cup {NULL} }]
            : S \in SUBSET Ids }

\* records of posts passed to get_parent: the column user_id missing, null
\* or set
ChildRecords == { Empty } \cup { [user_id |-> u] : u \in Users \cup {NULL} }

\* records of users passed to get_children: the key missing, null or set
ParentRecords == { Empty } \cup { [id |-> u] : u \in Users \cup {NULL} }

\* handles of posts passed to get_children as a Table object
ChildHandles ==
    { NewTable("posts", PostCols, dc, F) :
        dc \in {NoClass, DeclaredClass(PostCols)}, F \in Filters }

NavOut(res, ret, target) == [res |-> res, ret |-> ret, target |-> target]

\* the NotFoundError of the parent handle is not caught
GetParentExec_NoCatch(rec, reg, rows) ==
    LET fk == Col(rec, "user_id")
    IN  IF fk = NULL THEN NavOut("ok", {}, NoHandle)
        ELSE IF "users" \notin DOMAIN reg THEN NavOut("SchemaError", {}, NoHandle)
        ELSE IF fk \in rows /\ Satisfies([id |-> fk], reg["users"].F)
        THEN NavOut("ok", {ToRecord(reg["users"], [id |-> fk])}, reg["users"])
        ELSE NavOut("NotFoundError", {}, reg["users"])

\* posts.get_parent(rec, "user_id"): None (no record) for a null reference;
\* SchemaError when users is not cached; otherwise users[fk], None when that
\* raises NotFoundError
GetParentExec(rec, reg, rows) ==
    LET fk == Col(rec, "user_id")
    IN  IF fk = NULL THEN NavOut("ok", {}, NoHandle)
        ELSE IF "users" \notin DOMAIN reg THEN NavOut("SchemaError", {}, NoHandle)
        ELSE IF fk \in rows /\ Satisfies([id |-> fk], reg["users"].F)
        THEN NavOut("ok", {ToRecord(reg["users"], [id |-> fk])}, reg["users"])
        ELSE NavOut("ok", {}, reg["users"])

\* users.get_children(rec, child, "user_id"): child is a Table object, or
\* the name "posts" resolved in the registry; the SELECT has the one
\* condition user_id = key
GetChildrenExec(rec, byName, child, reg, rows) ==
    IF ~HasPk(rec) THEN NavOut("ValidationError", {}, NoHandle)
    ELSE IF byName /\ "posts" \notin DOMAIN reg THEN NavOut("SchemaError", {}, NoHandle)
    ELSE LET target == IF byName THEN reg["posts"] ELSE child
         IN  NavOut("ok",
                    { ToRecord(target, Rec(k, rows[k])) :
                        k \in { j \in DOMAIN rows : rows[j].user_id = rec["id"] } },
                    target)

\* everything but the registry, the type counter and the last call
NavFrame ==
    /\ UNCHANGED <<db, stack, closed, nops, parents, hand, catalog, metadata, tasks>>
    /\ UNCHANGED migVars

GetParent ==
    \E rec \in ChildRecords :
        LET out == GetParentExec(rec, registry, parents)
        IN  /\ "posts" \in DOMAIN registry
            /\ last' = [op |-> "get_parent", F |-> out.target.F, rec |-> rec,
                        res |-> out.res, ret |-> out.ret, target |-> out.target,
                        byName |-> TRUE]
            /\ UNCHANGED <<registry, ntypes>>
            /\ NavFrame

GetChildren ==
    \E rec \in ParentRecords, byName \in BOOLEAN, child \in ChildHandles \cup {NoHandle} :
        LET out == GetChildrenExec(rec, byName, child, registry, db)
        IN  /\ "users" \in DOMAIN registry
            /\ byName <=> child = NoHandle
            /\ last' = [op |-> "get_children", F |-> out.target.F, rec |-> rec,
                        res |-> out.res, ret |-> out.ret, target |-> out.target,
                        byName |-> byName]
            /\ UNCHANGED <<registry, ntypes>>
            /\ NavFrame

\* db.reflect_table(name): the cached handle, or a new one without dataclass
ReflectTable ==
    \E name \in {"posts", "users"} :
        /\ registry' = IF name \in DOMAIN registry THEN registry
                       ELSE (name :> NewTable(name, ColsOf(name), NoClass, Empty)) @@ registry
        /\ last' = [op |-> "reflect_table", F |-> Empty, rec |-> Empty, res |-> "ok",
                    ret |-> {registry'[name]}, target |-> NoHandle, byName |-> TRUE]
        /\ UNCHANGED ntypes
        /\ NavFrame

\* db.t.<name>.dataclass(): the cached handle's output becomes typed
CachedDataclass ==
    \E name \in DOMAIN registry :
        LET cls == DataclassOf(registry[name], ntypes + 1)
        IN  /\ cls # registry[name].dc => ntypes < MaxTypes
            /\ registry' = [registry EXCEPT ![name].dc = cls]
            /\ ntypes' = IF cls # registry[name].dc THEN ntypes + 1 ELSE ntypes
            /\ last' = [op |-> "dataclass", F |-> Empty, rec |-> Empty, res |-> "ok",
                        ret |-> {cls}, target |-> NoHandle, byName |-> TRUE]
            /\ NavFrame

\* any stored rows of posts and users, any cached handles
InitNav ==
    /\ InitQuiet
    /\ db \in NavTables
    /\ parents \in SUBSET Users
    /\ registry \in Registries
    /\ hand = NoHandle
    /\ ntypes = 0
    /\ catalog = [posts |-> PostCols, users |-> UserCols]
    /\ metadata = [t \in DOMAIN registry |-> ColsOf(t)]

NextNav ==
    \/ GetParent
    \/ GetChildren
    \/ ReflectTable
    \/ CachedDataclass

SpecNav == InitNav /\ [][NextNav]_vars

(* ----------------------------- Database.create -------------------------- *)
\* annotations of the classes passed to create(): none, no "id" (the
\* default primary key), and two shapes of the table
ClassFields == { {}, {"title"}, {"id", "title"}, PostCols }

Classes == { PlainClass(f) : f \in ClassFields }

\* dict.pop(name, None), MetaData.remove, DROP TABLE IF EXISTS
Without(f, name) == Restrict(f, DOMAIN f \ {name})

\* storage, metadata and registry, as create() reads and leaves them
World(cat, meta, reg, rows) ==
    [catalog |-> cat, metadata |-> meta, registry |-> reg, db |-> rows]

BlankRow(cols) == [c \in cols \ {"id"} |-> NULL]

\* the table is removed from metadata and registry but not from storage
DropForReplace_CacheOnly(w, t) ==
    [w EXCEPT !.metadata = Without(@, t), !.registry = Without(@, t)]

\* replace=True: DROP TABLE IF EXISTS in a session of its own, then the
\* table is removed from the metadata and from the registry
DropForReplace(w, t) ==
    [w EXCEPT !.catalog = Without(@, t),
              !.db = Empty,
              !.metadata = Without(@, t),
              !.registry = Without(@, t)]

\* Database.create(cls, if_not_exists=ine, replace=rep, indexes=...) for the
\* class Post; badIndex: the index spec names a column cls does not have,
\* which _create_indexes finds after the CREATE TABLE was committed
CreateExec(cls, ine, rep, badIndex, w) ==
    LET t == "posts"
        w1 == IF rep THEN DropForReplace(w, t) ELSE w
        End(wEnd, res, ret) == [world |-> wEnd, res |-> res, ret |-> ret]
        Cached(wAny, h) == [wAny EXCEPT !.registry = (t :> h) @@ @]
    IN  IF cls.fields = {} THEN End(w1, "ValidationError", {})
        ELSE IF "id" \notin cls.fields THEN End(w1, "SchemaError", {})
        ELSE IF t \in DOMAIN w1.metadata /\ ine
        THEN LET h == NewTable(t, w1.metadata[t], cls, Empty)
             IN  End(Cached(w1, h), "ok", {h})
        ELSE LET w2 == [w1 EXCEPT !.metadata = (t :> cls.fields) @@ @]
                 h == NewTable(t, cls.fields, cls, Empty)
                 w3 == IF t \in DOMAIN w2.catalog THEN w2
                       ELSE [w2 EXCEPT !.catalog = (t :> cls.fields) @@ @,
                                       !.db = Empty]
             IN  IF t \in DOMAIN w2.catalog /\ ~ine THEN End(w2, "SchemaError", {})
                 ELSE IF badIndex THEN End(w3, "ValidationError", {})
                 ELSE End(Cached(w3, h), "ok", {h})

\* everything but storage, metadata, registry and the last call
CreateFrame ==
    /\ UNCHANGED <<stack, closed, nops, parents, hand, ntypes, tasks>>
    /\ UNCHANGED migVars

CreateLast(op, res, ret, cls, ine, rep) ==
    [op |-> op, F |-> Empty, rec |-> Empty, res |-> res, ret |-> ret,
     cls |-> cls, ine |-> ine, rep |-> rep,
     before |-> [catalog |-> catalog, db |-> db, registry |-> registry]]

Create ==
    \E cls \in Classes, ine \in BOOLEAN, rep \in BOOLEAN, badIndex \in BOOLEAN :
        LET out == CreateExec(cls, ine, rep, badIndex,
                              World(catalog, metadata, registry, db))
        IN  /\ catalog' = out.world.catalog
            /\ metadata' = out.world.metadata
            /\ registry' = out.world.registry
            /\ db' = out.world.db
            /\ last' = CreateLast("create", out.res, out.ret, cls, ine, rep)
            /\ CreateFrame

\* db.t.posts.insert({}): the INSERT is committed, then the row is read back
\* with the columns the handle knows
CachedInsert ==
    /\ "posts" \in DOMAIN registry
    /\ IF "posts" \notin DOMAIN catalog
       THEN /\ db' = db
            /\ last' = CreateLast("insert", "RuntimeError", {}, NoClass, FALSE, FALSE)
       ELSE /\ NextId(db) \in Ids
            /\ db' = (NextId(db) :> BlankRow(catalog["posts"])) @@ db
            /\ last' = CreateLast("insert",
                           IF registry["posts"].cols \subseteq catalog["posts"]
                           THEN "ok" ELSE "RuntimeError",
                           {}, NoClass, FALSE, FALSE)
    /\ UNCHANGED <<catalog, metadata, registry>>
    /\ CreateFrame

\* db.t.posts.drop(): DROP TABLE; metadata and registry keep the table
DropTable ==
    /\ "posts" \in DOMAIN registry
    /\ catalog' = Without(catalog, "posts")
    /\ db' = Empty
    /\ last' = CreateLast("drop",
                   IF "posts" \in DOMAIN catalog THEN "ok" ELSE "OperationalError",
                   {}, NoClass, FALSE, FALSE)
    /\ UNCHANGED <<metadata, registry>>
    /\ CreateFrame

\* db.reflect(): stored tables the metadata does not hold are added to it,
\* tables of the metadata that are not cached get a handle without dataclass
Reflect ==
    /\ metadata' = metadata @@ catalog
    /\ registry' = registry @@
                      [t \in DOMAIN metadata' |-> NewTable(t, metadata'[t], NoClass, Empty)]
    /\ last' = CreateLast("reflect", "ok", {}, NoClass, FALSE, FALSE)
    /\ UNCHANGED <<catalog, db>>
    /\ CreateFrame

\* a new Database object on a store that holds no table, or the table posts
\* made by an earlier process
InitCreate ==
    /\ InitQuiet
    /\ db = Empty
    /\ catalog \in { Empty } \cup { [posts |-> c] : c \in { {"id", "title"}, PostCols } }
    /\ metadata = Empty
    /\ registry = Empty
    /\ hand = NoHandle
    /\ ntypes = 0
    /\ parents = {}

NextCreate ==
    \/ Create
    \/ CachedInsert
    \/ DropTable
    \/ Reflect

SpecCreate == InitCreate /\ [][NextCreate]_vars

(* ------------------------- integrity violations ------------------------- *)
\* the constraints of posts in this part: the primary key id, a unique index
\* on title, and the foreign key user_id -> users.id, enforced; NULL never
\* collides and never refers
Violations(v, k, data, par) ==
    { c \in {"pk", "unique", "fk"} :
        \/ c = "pk" /\ k \in DOMAIN v
        \/ c = "unique" /\ Col(data, "title") # NULL
                        /\ \E j \in DOMAIN v : v[j].title = Col(data, "title")
        \/ c = "fk" /\ Col(data, "user_id") # NULL /\ Col(data, "user_id") \notin par }

\* str(e.orig) of the engine the tests run on (sqlite+aiosqlite), as the
\* phrases of it the classification looks for, in lower case:
\*   "UNIQUE constraint failed: posts.id", "UNIQUE constraint failed:
\*   posts.title", "FOREIGN KEY constraint failed"
EngineMessage(c) ==
    IF c = "fk" THEN {"foreign key", "foreign key constraint"}
    ELSE {"unique constraint"}

\* the constraint is taken from the first phrase found, in this order
ClassifyConstraint(msg) ==
    IF "unique constraint" \in msg THEN "unique"
    ELSE IF "primary key constraint" \in msg \/ "primary key" \in msg THEN "primary_key"
    ELSE IF "foreign key constraint" \in msg \/ "foreign key" \in msg THEN "foreign_key"
    ELSE "None"

\* Table.insert on posts through the unfiltered handle; the engine reports
\* one of the constraints the row violates
InsertChecked ==
    \E rec \in Records :
        LET v == View(db, ActiveSession)
            k == InsertKey(v, rec)
            viol == Violations(v, k, rec, parents)
        IN  /\ k \in Ids
            /\ Len(stack) <= 1
            /\ nops < MaxOps
            /\ nops' = nops + 1
            /\ \E c \in (IF viol = {} THEN {"none"} ELSE viol) :
                 LET out == IF c = "none"
                            THEN InsertExec(db, ActiveSession, Empty, rec, FALSE)
                            ELSE Out(ActiveSession, "IntegrityError", {}, FALSE, TRUE)
                 IN  /\ SessionScope(out)
                     /\ last' = [op |-> "insert", F |-> Empty, rec |-> rec,
                                 res |-> out.res, ret |-> out.ret,
                                 violated |-> viol, reported |-> c,
                                 constraint |-> IF c = "none" THEN "none"
                                                ELSE ClassifyConstraint(EngineMessage(c)),
                                 table_name |-> hand.name,
                                 scoped |-> stack # <<>>, before |-> db]
            /\ UNCHANGED closed
            /\ UNCHANGED migVars
            /\ UNCHANGED regVars

\* posts and users created, one user stored
InitIntegrity ==
    /\ InitQuiet
    /\ db = Empty
    /\ parents = {1}
    /\ catalog = [posts |-> PostCols, users |-> UserCols]
    /\ metadata = catalog
    /\ hand = NewTable("posts", PostCols, PlainClass(PostCols), Empty)
    /\ registry = [posts |-> hand,
                   users |-> NewTable("users", UserCols, PlainClass(UserCols), Empty)]
    /\ ntypes = 0

NextIntegrity ==
    \/ InsertChecked
    \/ TxEnter
    \/ TxCommit
    \/ TxAbort

SpecIntegrity == InitIntegrity /\ [][NextIntegrity]_vars

(* ----------------- a transaction body that catches errors --------------- *)
MaxCalls == 3       \* calls made in the body of one db.transaction() block

\* the calls made so far in the body, with their results
BodyLog == IF "log" \in DOMAIN last THEN last.log ELSE <<>>

BodyRecords == { Empty, [id |-> 1], [title |-> 1] }

\* a call in the body of async with db.transaction(); an exception it raises
\* is caught by the body (try / except around the call)
BodyCall(op, rec, out) ==
    /\ Len(stack) = 1
    /\ Len(BodyLog) < MaxCalls
    /\ SessionScope(out)
    /\ last' = [op |-> op, F |-> Empty, rec |-> rec, res |-> out.res, ret |-> out.ret,
                log |-> Append(BodyLog, [op |-> op, res |-> out.res,
                                         ids |-> { r.id : r \in out.ret }])]
    /\ UNCHANGED <<closed, nops>>
    /\ UNCHANGED migVars
    /\ UNCHANGED regVars

BodyInsert ==
    \E rec \in BodyRecords :
        /\ InsertKey(View(db, ActiveSession), rec) \in Ids
        /\ BodyCall("insert", rec, InsertExec(db, ActiveSession, Empty, rec, FALSE))

BodyGet ==
    \E k \in Ids :
        BodyCall("get", [id |-> k], GetExec(db, ActiveSession, Empty, k))

NextCatch ==
    \/ BodyInsert
    \/ BodyGet
    \/ TxEnter
    \/ TxCommit
    \/ TxAbort

SpecCatch == Init /\ [][NextCatch]_vars

(* --------------------- concurrent upserts, no scope --------------------- *)
\* two tasks of one event loop, each awaiting posts.upsert(rec) outside a
\* transaction; a task runs until its next await of the engine
TaskIds == {1, 2}

KeyedRecords == { r \in Records : HasPk(r) }

UpsertTask(rec) ==
    [pc |-> "start", rec |-> rec, existing |-> FALSE, res |-> "none",
     sess |-> NewSession(Empty)]

\* keys on which a task other than t has a write that is not yet committed
PendingOfOthers(t) ==
    UNION { Touched(tasks[u].sess) : u \in { x \in TaskIds \ {t} : tasks[x].pc = "pending" } }

RaceFrame ==
    /\ UNCHANGED <<stack, last, closed, nops>>
    /\ UNCHANGED <<parents, registry, hand, ntypes, catalog, metadata>>
    /\ UNCHANGED migVars

\* upsert: the existence check, in a session of its own that is committed
\* and released before the write is chosen
UpsertCheck ==
    \E t \in TaskIds :
        /\ tasks[t].pc = "start"
        /\ tasks' = [tasks EXCEPT ![t].pc = "checked",
                                  ![t].existing = Matches(db, tasks[t].rec["id"], hand.F)]
        /\ UNCHANGED db
        /\ RaceFrame

\* upsert: self.update(record) or self.insert(record), up to the commit of
\* its session; the statement waits while another session has an
\* uncommitted write of the same key
UpsertWrite ==
    \E t \in TaskIds :
        LET rec == tasks[t].rec
            out == IF tasks[t].existing
                   THEN UpdateExec(db, NewSession(db), hand.F, rec, FALSE)
                   ELSE InsertExec(db, NewSession(db), hand.F, rec, FALSE)
        IN  /\ tasks[t].pc = "checked"
            /\ rec["id"] \notin PendingOfOthers(t)
            /\ tasks' = [tasks EXCEPT ![t].pc = IF out.res = "ok" THEN "pending" ELSE "done",
                                      ![t].res = out.res,
                                      ![t].sess = out.sess]
            /\ UNCHANGED db
            /\ RaceFrame

\* session.commit() of the write, after which the call returns
WriteCommit ==
    \E t \in TaskIds :
        /\ tasks[t].pc = "pending"
        /\ db' = View(db, tasks[t].sess)
        /\ tasks' = [tasks EXCEPT ![t].pc = "done"]
        /\ RaceFrame

\* posts holds no row or one row; each task is about to call upsert
InitRace ==
    /\ stack = <<>>
    /\ last = [op |-> "none", F |-> Empty, rec |-> Empty, res |-> "ok", ret |-> {}]
    /\ closed = [outcome |-> "none", sess |-> NewSession(Empty)]
    /\ nops = 0
    /\ files = {}
    /\ ledger = {}
    /\ effects = {}
    /\ run = Idle
    /\ prevRun = Summary(Idle)
    /\ InitObjects
    /\ db \in { Empty, (1 :> RowOf(Empty)) }
    /\ tasks \in [TaskIds -> { UpsertTask(r) : r \in KeyedRecords }]

NextRace ==
    \/ UpsertCheck
    \/ UpsertWrite
    \/ WriteCommit

SpecRace == InitRace /\ [][NextRace]_vars

(* ------------------------- two concurrent up() runs --------------------- *)
\* a MigrationRunner.up() call of a process of its own; ran: the versions
\* whose upgrade() this call executed
Runner ==
    [pc |-> "idle", queue |-> <<>>, ran |-> <<>>, res |-> "none"]

UpRaceFrame ==
    /\ UNCHANGED <<files, run, prevRun>>
    /\ UNCHANGED crudVars
    /\ UNCHANGED <<parents, registry, hand, ntypes, catalog, metadata>>

\* up(): _get_current_version, then _discover_migrations(after=current)
RunnerStart ==
    \E t \in TaskIds :
        /\ tasks[t].pc = "idle"
        /\ tasks' = [tasks EXCEPT ![t].queue = UpQueue(NoTarget),
                                  ![t].pc = IF UpQueue(NoTarget) = <<>> THEN "done" ELSE "fwd",
                                  ![t].res = IF UpQueue(NoTarget) = <<>> THEN "ok" ELSE "running"]
        /\ UNCHANGED <<ledger, effects>>
        /\ UpRaceFrame

\* upgrade(db) of the next unit: its statements go through Database.q, each
\* in a session of its own that is committed at once
RunnerForward ==
    \E t \in TaskIds, fail \in BOOLEAN :
        LET v == Head(tasks[t].queue)
        IN  /\ tasks[t].pc = "fwd"
            /\ IF fail
               THEN /\ tasks' = [tasks EXCEPT ![t].pc = "done", ![t].res = "error"]
                    /\ UNCHANGED effects
               ELSE /\ tasks' = [tasks EXCEPT ![t].pc = "record",
                                              ![t].ran = Append(@, v)]
                    /\ effects' = effects \cup { <<v, i>> : i \in 1..NumSteps }
            /\ UNCHANGED ledger
            /\ UpRaceFrame

\* _record_migration: INSERT of the version, refused for a recorded version;
\* then the next unit, or the end of the run
RunnerRecord ==
    \E t \in TaskIds :
        LET v == Head(tasks[t].queue)
            rest == Tail(tasks[t].queue)
        IN  /\ tasks[t].pc = "record"
            /\ IF v \in ledger
               THEN /\ tasks' = [tasks EXCEPT ![t].pc = "done", ![t].res = "error"]
                    /\ UNCHANGED ledger
               ELSE /\ ledger' = ledger \cup {v}
                    /\ tasks' = [tasks EXCEPT ![t].queue = rest,
                                              ![t].pc = IF rest = <<>> THEN "done" ELSE "fwd",
                                              ![t].res = IF rest = <<>> THEN "ok" ELSE "running"]
            /\ UNCHANGED effects
            /\ UpRaceFrame

\* a fresh database, any migrations directory, two up() calls about to start
InitUpRace ==
    /\ db = Empty
    /\ stack = <<>>
    /\ last = [op |-> "none", F |-> Empty, rec |-> Empty, res |-> "ok", ret |-> {}]
    /\ closed = [outcome |-> "none", sess |-> NewSession(Empty)]
    /\ nops = 0
    /\ InitObjects
    /\ files \in SUBSET Versions
    /\ ledger = {}
    /\ effects = {}
    /\ run = Idle
    /\ prevRun = Summary(Idle)
    /\ tasks = [t \in TaskIds |-> Runner]

NextUpRace ==
    \/ RunnerStart
    \/ RunnerForward
    \/ RunnerRecord

SpecUpRace == InitUpRace /\ [][NextUpRace]_vars

(* ------------------- a second task and the context variable ------------- *)
\* asyncio.create_task / gather: the new task runs in a copy of the current
\* context, so it starts with the _active_session value of its creator.
\* ctx is the number of sessions installed at that moment (0: none); the
\* task itself never calls db.transaction()
Spawn ==
    /\ tasks = <<>>
    /\ tasks' = (2 :> [pc |-> "spawned", ctx |-> Len(stack), res |-> "none",
                       key |-> NULL, shared |-> FALSE])
    /\ UNCHANGED <<parents, registry, hand, ntypes, catalog, metadata>>
    /\ UNCHANGED crudVars
    /\ UNCHANGED migVars

\* posts.insert(rec) awaited by the second task while the scope it was
\* created in, if any, is still open: _session_scope takes the session its
\* context holds, or opens, commits and releases one of its own
ChildInsert ==
    \E rec \in BodyRecords :
        LET inherited == tasks[2].ctx > 0
            s == IF inherited THEN stack[tasks[2].ctx] ELSE NewSession(db)
            k == InsertKey(View(db, s), rec)
            out == InsertExec(db, s, Empty, rec, FALSE)
        IN  /\ DOMAIN tasks = {2}
            /\ tasks[2].pc = "spawned"
            /\ inherited => (closed.outcome = "none" /\ Len(stack) = tasks[2].ctx)
            /\ k \in Ids
            /\ ~inherited => k \notin UNION { Touched(stack[i]) : i \in 1..Len(stack) }
            /\ tasks' = [tasks EXCEPT ![2].pc = "done", ![2].res = out.res,
                                      ![2].key = k, ![2].shared = inherited]
            /\ IF inherited
               THEN /\ stack' = [stack EXCEPT ![tasks[2].ctx] = out.sess]
                    /\ db' = db
               ELSE /\ db' = IF out.commit THEN View(db, out.sess) ELSE db
                    /\ stack' = stack
            /\ UNCHANGED <<last, closed, nops>>
            /\ UNCHANGED <<parents, registry, hand, ntypes, catalog, metadata>>
            /\ UNCHANGED migVars

NextCtx ==
    \/ Spawn
    \/ ChildInsert
    \/ BodyInsert
    \/ TxEnter
    \/ TxCommit
    \/ TxAbort

SpecCtx == Init /\ [][NextCtx]_vars

(* ------------------------------- claims --------------------------------- *)
CrudWrites == {"insert", "update", "upsert", "delete"}

CrudReads == {"get", "select", "lookup"}

\* C1: when the body of a db.transaction() block in which only Record Store
\* calls were made raises, the committed table is what it was when the block
\* was entered, and the error is re-raised to the caller.
C1_RollbackRestoresTables ==
    (last.op = "tx_abort" /\ closed.sess.pure)
        => (db = closed.sess.snap /\ last.res = "raised"
            /\ closed.outcome = "rollback" /\ closed.sess.commits = 0)

\* a block that wrote rows on top of a non-empty table and then raised
C1_Witness ==
    /\ last.op = "tx_abort"
    /\ closed.sess.pure
    /\ DOMAIN closed.sess.put # {}
    /\ db # Empty

\* C2: a Record Store call made while a scope is active leaves the committed
\* table and the shared session's commit / rollback counts as they were; the
\* scope's writes are committed once, at normal exit, and are then all
\* visible in the committed table.
C2_NoCommitInsideScope ==
    [][ (stack # <<>> /\ nops' = nops + 1 /\ last'.op \in CrudWrites \cup CrudReads)
          => /\ db' = db
             /\ Len(stack') = Len(stack)
             /\ stack'[Len(stack)].commits = stack[Len(stack)].commits
             /\ stack'[Len(stack)].rollbacks = stack[Len(stack)].rollbacks ]_vars

C2_CommittedOnceAtExit ==
    (last.op = "tx_commit")
        => /\ closed.outcome = "commit"
           /\ closed.sess.commits = 1
           /\ closed.sess.rollbacks = 0
           /\ \A k \in DOMAIN closed.sess.put :
                 k \in DOMAIN db /\ db[k] = closed.sess.put[k]
           /\ \A k \in closed.sess.del : k \notin DOMAIN db

C2_CommitOnceOnNormalExit == C2_NoCommitInsideScope /\ []C2_CommittedOnceAtExit

\* a scope that made two writes and then completed normally
C2_Witness ==
    /\ last.op = "tx_commit"
    /\ Cardinality(Touched(closed.sess)) >= 2
    /\ stack = <<>>

\* C3: an error raised in the outermost db.transaction() body undoes every
\* write made inside it, also the writes of an inner db.transaction() block
\* that had exited normally: the committed table is what it was when the
\* outermost block was entered.
C3_OuterErrorUndoesInnerWrites ==
    (last.op = "tx_abort" /\ stack = <<>>) => db = closed.sess.snap

\* no row matches the identity and the FilterSet of the call being made
NoRowMatches ==
    /\ "id" \in DOMAIN last'.rec
    /\ ~Matches(View(db, ActiveSession), last'.rec["id"], last'.F)

UpdateOrDeleteStep == nops' = nops + 1 /\ last'.op \in {"update", "delete"}

C10_FilterSetRespected ==
    /\ (last.op \in CrudReads /\ last.res = "ok")
          => \A r \in last.ret : Satisfies(r, last.F)
    /\ (last.op = "insert" /\ last.res = "ok")
          => \A r \in last.ret :
                LET v == View(db, ActiveSession)
                IN  r.id \in DOMAIN v /\ Satisfies(v[r.id], last.F)

\* an insert through a filtered handle whose record did not carry the
\* filtered column, while a row outside the FilterSet is stored
C10_Witness ==
    /\ last.op = "insert"
    /\ last.res = "ok"
    /\ last.F # Empty
    /\ "user_id" \notin DOMAIN last.rec
    /\ \E k \in DOMAIN db : ~Satisfies(db[k], last.F)

\* the effects of the forward action of unit v
UnitEffects(v) == { <<v, i>> : i \in 1..NumSteps }

RunEnded(kind) == run.pc = "idle" /\ run.kind = kind

\* C4: outside a unit's transaction block, the ledger holds version v exactly
\* when the effects of v's forward action are committed: all of them with
\* the ledger row, none of them without it.
C4_LedgerMatchesEffects ==
    (run.pc \in {"idle", "begin"})
        => \A v \in Versions :
              /\ v \in ledger => UnitEffects(v) \subseteq effects
              /\ v \notin ledger => UnitEffects(v) \cap effects = {}

\* C5: when the forward action of unit k fails during up(), the run ends
\* with the error, the units applied earlier in the run are in the ledger,
\* k is not, and no unit above k was attempted.
C5_FailedUnitStopsRun ==
    (RunEnded("up") /\ run.failed # 0 /\ run.phase = "action")
        => /\ run.res = "error"
           /\ \A v \in Range(run.applied) : v \in ledger /\ v < run.failed
           /\ run.failed \notin ledger
           /\ run.tried = Append(run.applied, run.failed)

\* unit k failed after a lower unit was applied, with a higher unit waiting
C5_Witness ==
    /\ RunEnded("up")
    /\ run.res = "error"
    /\ run.phase = "action"
    /\ Len(run.applied) >= 1
    /\ \E v \in run.dir : v > run.failed

\* C6: a successful up(toVersion) applies exactly the discovered units whose
\* version is not in the ledger and is <= toVersion (all of them without a
\* target), in ascending version order.
C6_UpAppliesEveryPending ==
    (RunEnded("up") /\ run.res = "ok")
        => run.applied =
              Sorted({ v \in run.dir : v \notin run.pre
                                     /\ (run.to = NoTarget \/ v <= run.to) })

\* C7: a successful down() without a target undoes exactly the unit with the
\* highest recorded version; down(toVersion=N) undoes exactly the recorded
\* units above N, in descending order, and keeps the ledger rows <= N;
\* down(toVersion=0) empties the ledger.
C7_DownUndoesExactlyApplied ==
    (RunEnded("down") /\ run.res = "ok")
        => IF run.to = NoTarget
           THEN run.applied = (IF run.pre = {} THEN <<>> ELSE <<SetMax(run.pre)>>)
           ELSE /\ run.applied = Reversed(Sorted({ v \in run.pre : v > run.to }))
                /\ { v \in ledger : v <= run.to } = { v \in run.pre : v <= run.to }
                /\ run.to = 0 => ledger = {}

\* C8: when up() has completed without error and the down(toVersion=0) that
\* follows it completes without error, the ledger is empty and no effect of
\* a forward action is left.
C8_UpThenDownToZero ==
    (RunEnded("down") /\ run.to = 0 /\ run.res = "ok"
        /\ prevRun.kind = "up" /\ prevRun.to = NoTarget /\ prevRun.res = "ok")
        => (ledger = {} /\ effects = {})

\* up() had applied units and down(toVersion=0) has undone two or more
C8_Witness ==
    /\ RunEnded("down") /\ run.to = 0 /\ run.res = "ok"
    /\ prevRun.kind = "up" /\ prevRun.to = NoTarget /\ prevRun.res = "ok"
    /\ Len(run.applied) >= 2
    /\ run.pre # {}

InsertOrUpdateStep == nops' = nops + 1 /\ last'.op \in {"insert", "update"}

\* C11: insert and update through a handle with a FilterSet raise
\* ValidationError when the record carries a value for a FilterSet column
\* that differs from the FilterSet's value; no statement is executed: the
\* committed table and every open session are left as they were.
C11_ConflictFailsValidation ==
    [][ (InsertOrUpdateStep /\ Conflicts(last'.F, last'.rec))
          => (last'.res = "ValidationError" /\ db' = db /\ stack' = stack) ]_vars

\* an update through a filtered handle that names a stored row of the
\* FilterSet and carries a conflicting value for the filtered column
C11_Witness ==
    /\ last.op = "update"
    /\ last.res = "ValidationError"
    /\ Conflicts(last.F, last.rec)
    /\ "id" \in DOMAIN last.rec
    /\ Matches(db, last.rec["id"], last.F)

UpsertStep == nops' = nops + 1 /\ last'.op = "upsert"

\* a row with the record's key that satisfies the FilterSet is visible to the
\* session the call runs in
RowExists(rec, F) ==
    \E k \in DOMAIN View(db, ActiveSession) :
        k = rec["id"] /\ Satisfies(View(db, ActiveSession)[k], F)

\* C13: upsert(record) ends as insert(record) does when the key is missing
\* or null in the record; otherwise as update(record) does when a row with
\* that key satisfying the FilterSet exists, and as insert(record) does when
\* no such row exists: same result or error, same returned record, same
\* effect on the table and the session.
C13_UpsertIsInsertOrUpdate ==
    [][ UpsertStep =>
          \E busy \in BOOLEAN :
              LET rec == last'.rec
                  F == last'.F
                  out == IF HasPk(rec) /\ RowExists(rec, F)
                         THEN UpdateExec(db, ActiveSession, F, rec, busy)
                         ELSE InsertExec(db, ActiveSession, F, rec, busy)
              IN  /\ busy => OthersTouched # {}
                  /\ last'.res = out.res
                  /\ last'.ret = out.ret
                  /\ SessionScope(out) ]_vars

\* an upsert through a filtered handle of a key whose row is stored outside
\* the FilterSet: it went the way of insert and met the stored key
C13_Witness ==
    /\ last.op = "upsert"
    /\ last.res = "IntegrityError"
    /\ last.F # Empty
    /\ HasPk(last.rec)
    /\ last.rec["id"] \in DOMAIN db
    /\ ~Satisfies(db[last.rec["id"]], last.F)

\* the record a successful insert returned is a complete row with a key,
\* carries the values of the record passed in, and reading its key through
\* the same handle now returns that record
C20_ReturnedRowIsStored ==
    (last.op = "insert" /\ last.res = "ok")
        => /\ Cardinality(last.ret) = 1
           /\ \A r \in last.ret :
                 /\ DOMAIN r = {"id", "user_id", "title"}
                 /\ r.id \in Ids
                 /\ \A c \in DOMAIN last.rec :
                       (c # "id" \/ last.rec[c] # NULL) => r[c] = last.rec[c]
                 /\ GetExec(db, ActiveSession, last.F, r.id).res = "ok"
                 /\ GetExec(db, ActiveSession, last.F, r.id).ret = {r}

\* the call of get that follows a successful insert, for the returned key
\* and through the same handle, returns the record the insert returned
C20_NextGetReturnsIt ==
    [][ (last.op = "insert" /\ last.res = "ok"
            /\ nops' = nops + 1 /\ last'.op = "get" /\ last'.F = last.F
            /\ \E r \in last.ret : r.id = last'.rec["id"])
          => (last'.res = "ok" /\ last'.ret = last.ret) ]_vars

\* C20: insert(r) of a record the table accepts returns the stored row with
\* its key (assigned by the engine when r has none) and the defaults of the
\* columns r leaves out, and get() of that key, with no write in between,
\* returns a record equal to it field by field.
C20_InsertGetRoundTrip == []C20_ReturnedRowIsStored /\ C20_NextGetReturnsIt

\* an insert through a filtered handle of a record without key and without
\* the filtered column, into a table that holds another row
C20_Witness ==
    /\ last.op = "insert"
    /\ last.res = "ok"
    /\ ~HasPk(last.rec)
    /\ last.F # Empty
    /\ "user_id" \notin DOMAIN last.rec
    /\ Cardinality(DOMAIN View(db, ActiveSession)) >= 2

\* C12: deriving a handle with xtra(**filters) from a handle with FilterSet F
\* yields a FilterSet that contains every entry of F and every new filter; a
\* new filter that names a column of F with a different value is rejected
\* with an error instead of replacing F's value.
C12_XtraKeepsEveryFilter ==
    (last.op = "xtra")
        => IF Conflicts(last.F, last.rec) THEN last.res # "ok"
           ELSE /\ last.res = "ok"
                /\ \A c \in DOMAIN last.F :
                      c \in DOMAIN hand.F /\ hand.F[c] = last.F[c]
                /\ \A c \in DOMAIN last.rec :
                      c \in DOMAIN hand.F /\ hand.F[c] = last.rec[c]

\* C16: insert, update, upsert and delete on a View fail with
\* InvalidOperationError in every state, and the stored rows are unchanged.
C16_ViewWriteIsInvalidOperation ==
    [][ (hand.kind = "view" /\ last' # last
            /\ last'.op \in {"insert", "update", "upsert", "delete"})
          => (last'.res = "InvalidOperationError" /\ db' = db) ]_vars

\* the handle's output is typed and dataclass() has returned its type
C17_DataclassReturnsTheType ==
    (last.op = "dataclass") => (IsDataclass(hand.dc) /\ last.ret = {hand.dc})

\* the records a typed handle returns are instances of its type
C17_TypedHandleReturnsTyped ==
    (last.op \in {"select", "insert"} /\ IsDataclass(hand.dc))
        => \A r \in last.ret : r.type = hand.dc

\* no call changes the type of a typed handle
C17_TypeIsKept == [][ IsDataclass(hand.dc) => hand'.dc = hand.dc ]_vars

\* C17: Table.dataclass() is idempotent and sticky: after the first call the
\* handle's output is typed, every later call returns the same type, every
\* record the handle returns from then on (rows stored before the call
\* included) is an instance of that type, and the handle never goes back to
\* untyped output.
C17_DataclassIdempotentSticky ==
    /\ []C17_DataclassReturnsTheType
    /\ []C17_TypedHandleReturnsTyped
    /\ C17_TypeIsKept

\* a read of two stored rows through a handle whose type dataclass() made
C17_Witness ==
    /\ last.op = "select"
    /\ hand.dc.kind = "made"
    /\ Cardinality(last.ret) >= 2
    /\ \A r \in last.ret : r.type = hand.dc

\* the reference a get_parent call followed
LastRef == Col(last.rec, "user_id")

\* no row of posts refers to the record a get_children call was made for
NoChild == \A k \in DOMAIN db : db[k].user_id # last.rec["id"]

\* C14 as stated: get_parent returns None and does not raise when the
\* reference in the record is null or no row of users has that key;
\* get_children returns an empty list and does not raise when no row of
\* posts refers to the record's key.
C14_NullOrAbsentNeverRaises ==
    /\ (last.op = "get_parent" /\ (LastRef = NULL \/ LastRef \notin parents))
          => (last.res = "ok" /\ last.ret = {})
    /\ (last.op = "get_children" /\ HasPk(last.rec) /\ NoChild)
          => (last.res = "ok" /\ last.ret = {})

\* C14 amended: the same, for a target table whose handle is cached in the
\* registry (get_parent with a non-null reference, get_children with the
\* child table given by name); when it is not cached the call raises
\* SchemaError, whether or not a row matches.
C14_NullOrAbsentIsEmptyWhenCached ==
    /\ (last.op = "get_parent" /\ LastRef = NULL)
          => (last.res = "ok" /\ last.ret = {})
    /\ (last.op = "get_parent" /\ LastRef # NULL /\ "users" \in DOMAIN registry
            /\ LastRef \notin parents)
          => (last.res = "ok" /\ last.ret = {})
    /\ (last.op = "get_parent" /\ LastRef # NULL /\ "users" \notin DOMAIN registry)
          => last.res = "SchemaError"
    /\ (last.op = "get_children" /\ HasPk(last.rec) /\ NoChild
            /\ (last.byName => "posts" \in DOMAIN registry))
          => (last.res = "ok" /\ last.ret = {})
    /\ (last.op = "get_children" /\ HasPk(last.rec) /\ last.byName
            /\ "posts" \notin DOMAIN registry)
          => last.res = "SchemaError"

\* get_parent for a reference to a key that no row of users has, while
\* users holds another row and posts holds rows
C14_Witness ==
    /\ last.op = "get_parent"
    /\ LastRef # NULL
    /\ LastRef \notin parents
    /\ parents # {}
    /\ "users" \in DOMAIN registry
    /\ last.res = "ok"
    /\ last.ret = {}

\* C15: the records get_parent and get_children return are in the target
\* handle's current output shape and satisfy the target handle's FilterSet;
\* get_children with a child handle that carries FilterSet F returns no row
\* that violates F.
C15_NavigationRespectsTarget ==
    (last.op \in {"get_parent", "get_children"} /\ last.res = "ok")
        => \A r \in last.ret :
              /\ r.type = (IF IsDataclass(last.target.dc) THEN last.target.dc ELSE NoClass)
              /\ Satisfies(r.data, last.target.F)

\* C18: create(cls, if_not_exists=True) for a table that exists in storage
\* returns a handle whose columns are the stored table's columns, not those
\* of cls, and leaves the stored table and its rows as they were.
C18_IfNotExistsKeepsStoredShape ==
    (last.op = "create" /\ last.ine /\ ~last.rep /\ last.res = "ok"
        /\ "posts" \in DOMAIN last.before.catalog)
        => /\ \A h \in last.ret : h.cols = last.before.catalog["posts"]
           /\ catalog = last.before.catalog
           /\ db = last.before.db

\* C19: when create(cls, replace=True) returns, the table exists with the
\* columns of cls and no rows, and the registry maps the name to the handle
\* returned, whatever table, rows and registry entry there were before.
C19_ReplaceCreatesFresh ==
    (last.op = "create" /\ last.rep /\ last.res = "ok")
        => /\ "posts" \in DOMAIN catalog
           /\ catalog["posts"] = last.cls.fields
           /\ db = Empty
           /\ "posts" \in DOMAIN registry
           /\ last.ret = {registry["posts"]}
           /\ registry["posts"].cols = last.cls.fields
           /\ metadata["posts"] = last.cls.fields

\* replace=True on a stored table of another shape that held rows
C19_Witness ==
    /\ last.op = "create"
    /\ last.rep
    /\ last.res = "ok"
    /\ "posts" \in DOMAIN last.before.catalog
    /\ last.before.catalog["posts"] # last.cls.fields
    /\ last.before.db # Empty

\* C21: an insert that collides with the primary key or the unique index, or
\* violates the enforced foreign key, raises IntegrityError carrying the table
\* name and the kind of the constraint (primary_key, unique, foreign_key), and
\* outside a transaction scope the table is left as it was.
C21_IntegrityKindReported ==
    (last.op = "insert" /\ "violated" \in DOMAIN last /\ last.violated # {})
        => /\ last.res = "IntegrityError"
           /\ last.table_name = "posts"
           /\ last.reported = "pk" => last.constraint = "primary_key"
           /\ last.reported = "unique" => last.constraint = "unique"
           /\ last.reported = "fk" => last.constraint = "foreign_key"
           /\ ~last.scoped => db = last.before

ScopeExitStep == nops' = nops /\ last'.op \in {"tx_commit", "tx_abort"}

UnscopedCallStep ==
    nops' = nops + 1 /\ stack = <<>> /\ last'.op \in CrudWrites \cup CrudReads

\* C22: when db.transaction() exits, by commit or by rollback, its session is
\* no longer the active one and the sessions installed before entry are the
\* installed ones again; a call made with no scope active installs nothing,
\* and what it wrote is committed when it returns.
C22_ExitRestoresScope ==
    [][ /\ ScopeExitStep
           => stack' = SubSeq(stack, 1, Len(stack) - 1)
        /\ UnscopedCallStep
           => /\ stack' = <<>>
              /\ (last'.res = "ok" /\ last'.op \in {"insert", "update", "upsert"})
                    => \A r \in last'.ret :
                          r.id \in DOMAIN db' /\ Rec(r.id, db'[r.id]) = r
              /\ (last'.res = "ok" /\ last'.op = "delete")
                    => last'.rec["id"] \notin DOMAIN db' ]_vars

\* an insert made after a scope was left by rollback with a write pending
C22_Witness ==
    /\ closed.outcome = "rollback"
    /\ Touched(closed.sess) # {}
    /\ stack = <<>>
    /\ last.op = "insert"
    /\ last.res = "ok"
    /\ DOMAIN db # {}

FailedInBody == { i \in 1..Len(BodyLog) : BodyLog[i].res # "ok" }

InsertedInBody ==
    UNION { BodyLog[i].ids : i \in { j \in 1..Len(BodyLog) : BodyLog[j].op = "insert" } }

\* a call failed in the body: the session of the scope was neither committed
\* nor rolled back, and the rows inserted in the body before and after the
\* failed call are pending in it
C23_FailedCallLeavesUnitAlone ==
    (stack # <<>> /\ FailedInBody # {})
        => LET s == stack[Len(stack)]
           IN  /\ s.commits = 0
               /\ s.rollbacks = 0
               /\ db = s.snap
               /\ InsertedInBody \subseteq DOMAIN s.put

\* the exit of the scope commits every pending write, or rolls back, once
C23_ExitSettlesOnce ==
    [][ ScopeExitStep
        => LET s == stack[Len(stack)]
           IN  IF last'.op = "tx_commit"
               THEN /\ db' = View(db, s)
                    /\ closed'.sess.commits = 1
                    /\ closed'.sess.rollbacks = 0
               ELSE /\ db' = db
                    /\ closed'.sess.commits = 0
                    /\ closed'.sess.rollbacks = 1 ]_vars

\* C23: a call that fails inside a transaction scope neither rolls back nor
\* commits the shared session; the rollback happens once, at the exit of the
\* scope by an error, and when the body catches the error and ends normally
\* the writes made before and after the failed call are committed.
C23_RollbackOnlyAtScope == []C23_FailedCallLeavesUnitAlone /\ C23_ExitSettlesOnce

\* an insert, a failed call, and a second insert, all pending in the scope
C23_Witness ==
    /\ Len(stack) = 1
    /\ Len(BodyLog) = 3
    /\ BodyLog[1].op = "insert" /\ BodyLog[1].res = "ok"
    /\ BodyLog[2].res # "ok"
    /\ BodyLog[3].op = "insert" /\ BodyLog[3].res = "ok"
    /\ DOMAIN stack[1].put = {1, 2}

\* the rows the caller's session sees after the step
VisibleAfter == IF stack' # <<>> THEN View(db', stack'[Len(stack')]) ELSE db'

\* C24: a write made through a handle with FilterSet F neither changes nor
\* removes a row that does not satisfy F, and leaves every row that satisfies
\* F, and is still there, satisfying F.
C24_WritesStayInsideFilter ==
    [][ (nops' = nops + 1 /\ last'.op \in CrudWrites)
        => LET v == View(db, ActiveSession)
           IN  \A k \in DOMAIN v :
                  IF Satisfies(v[k], last'.F)
                  THEN k \in DOMAIN VisibleAfter => Satisfies(VisibleAfter[k], last'.F)
                  ELSE k \in DOMAIN VisibleAfter /\ VisibleAfter[k] = v[k] ]_vars

\* a delete or update that succeeded through a filtered handle while a row
\* outside the FilterSet was stored
C24_Witness ==
    /\ last.op \in {"update", "delete"}
    /\ last.res = "ok"
    /\ last.F # Empty
    /\ stack = <<>>
    /\ \E k \in DOMAIN db : ~Satisfies(db[k], last.F)

\* C25: a write through a handle derived from a View with xtra() fails as it
\* does on the View itself (NotImplementedError, raised before any
\* statement), and the stored rows are unchanged.
C25_DerivedHandleIsReadOnly ==
    [][ (hand.kind = "table" /\ hand.name \in ViewNames /\ last' # last
            /\ last'.op \in CrudWrites)
          => (last'.res = "NotImplementedError" /\ db' = db) ]_vars

\* C26: a create() that is rejected leaves the stored tables, their rows and
\* the registry exactly as they were before the call, with replace=True too.
C26_RejectedCreateChangesNothing ==
    (last.op = "create" /\ last.res # "ok")
        => /\ catalog = last.before.catalog
           /\ db = last.before.db
           /\ registry = last.before.registry

\* C27: down() executes a statement of a unit's downgrade() only when the
\* unit's version is recorded in the ledger.
C27_ReverseOnlyRecorded ==
    [][ (run.pc = "rev" /\ run' # run /\ run'.pc \in {"rev", "remove"})
          => run.cur \in ledger ]_vars

\* two tasks that upserted the same key and both took the insert branch
BothChoseInsert(t, u) ==
    /\ t # u
    /\ tasks[t].pc = "done" /\ tasks[u].pc = "done"
    /\ tasks[t].rec["id"] = tasks[u].rec["id"]
    /\ ~tasks[t].existing /\ ~tasks[u].existing

\* C28: when two concurrent upserts of one key, made outside a transaction
\* scope, both find no row and both insert, one insert is committed, the
\* other call raises IntegrityError, and the table holds one row of that key:
\* the row of the call that returned.
C28_RacingUpsertsOneWins ==
    \A t \in DOMAIN tasks, u \in DOMAIN tasks :
        BothChoseInsert(t, u)
            => /\ {tasks[t].res, tasks[u].res} = {"ok", "IntegrityError"}
               /\ tasks[t].rec["id"] \in DOMAIN db
               /\ tasks[t].res = "ok"
                    => db[tasks[t].rec["id"]] = RowOf(InsertData(hand.F, tasks[t].rec))

\* both tasks checked before either wrote, and both calls have ended
C28_Witness ==
    /\ DOMAIN tasks = TaskIds
    /\ BothChoseInsert(1, 2)
    /\ tasks[1].rec # tasks[2].rec

\* the up() calls that executed the forward action of version v
RanBy(v) ==
    { t \in DOMAIN tasks : \E i \in 1..Len(tasks[t].ran) : tasks[t].ran[i] = v }

\* C29: with two up() runs executing concurrently on one database and one
\* migrations directory, the forward action of each unit is executed by at
\* most one of them, and every recorded version is the version of a unit
\* whose forward action was executed.
C29_ForwardRunsAtMostOnce ==
    \A v \in Versions :
        /\ Cardinality(RanBy(v)) <= 1
        /\ v \in ledger => RanBy(v) # {}

\* C30: a call of a task that has not entered a transaction scope is never
\* executed on the session of a scope another task entered, and its write is
\* committed when the call returns, whatever that scope does later.
C30_ScopeIsLocalToItsTask ==
    (DOMAIN tasks = {2} /\ "shared" \in DOMAIN tasks[2] /\ tasks[2].res = "ok")
        => /\ ~tasks[2].shared
           /\ tasks[2].key \in DOMAIN db

TypeOK ==
    /\ DOMAIN db \subseteq Ids
    /\ Len(stack) <= MaxDepth
    /\ nops \in 0..MaxOps
====
